---- MODULE Spec2Model ----
(***************************************************************************)
(* Model of the Portal item backup scripts.                                *)
(*                                                                         *)
(* portal_item_backup_zip.py is a straight-line script: it names a staging *)
(* folder and a ZIP archive after the current minute, creates the folder,  *)
(* copies the Item JSON files (32 hex digit names) into it, zips and       *)
(* deletes the copies, removes the folder and prunes the oldest ZIP files  *)
(* down to retention_limit.  One run of the script is one pass of pc from  *)
(* "mkdir" to "done"; an uncaught exception ends the run in "crashed".     *)
(* The scheduler starts the script again and again: StartRun.              *)
(*                                                                         *)
(* Every file-system call may fail (OSError): the ok input of the actions. *)
(* The path checks of lines 69-84 and the logger set-up are not modelled:  *)
(* a run that exits there touches nothing.                                 *)
(***************************************************************************)
EXTENDS Integers, Sequences, FiniteSets, Bags

\* ---------------------------------------------------------------- bounds

\* the scheduler starts at most MaxRuns runs
MaxRuns == 2
\* the clock advances at most MaxTime minutes
MaxTime == 2
\* retention_limit is drawn from 1..MaxRetention
MaxRetention == 2
\* file names of the selection check carry a prefix of at most MaxPrefix characters
MaxPrefix == 2

\* ---------------------------------------------------------- file names

\* length of an Item file name, line 199
UuidLen == 32

Rep(c, n) == [i \in 1..n |-> c]

HexDigits == {"0", "9", "a", "f", "A", "F"}
Space == {" "}
Alphabet == HexDigits \cup Space \cup {"g", "x", "X", "_", "+", "-", "."}

RECURSIVE LStrip(_)
LStrip(s) == IF s # <<>> /\ Head(s) \in Space THEN LStrip(Tail(s)) ELSE s

RECURSIVE RStrip(_)
RStrip(s) ==
    IF s # <<>> /\ s[Len(s)] \in Space THEN RStrip(SubSeq(s, 1, Len(s) - 1)) ELSE s

StripSign(s) == IF s # <<>> /\ Head(s) \in {"+", "-"} THEN Tail(s) ELSE s

\* base 16 accepts a 0x / 0X prefix, and one underscore after it
StripPrefix(s) ==
    IF Len(s) >= 2 /\ s[1] = "0" /\ s[2] \in {"x", "X"}
    THEN LET r == SubSeq(s, 3, Len(s))
         IN  IF r # <<>> /\ Head(r) = "_" THEN Tail(r) ELSE r
    ELSE s

\* digits, with single underscores between them
DigitRun(d) ==
    /\ d # <<>>
    /\ d[1] # "_"
    /\ d[Len(d)] # "_"
    /\ \A i \in 1..Len(d) : d[i] \in HexDigits \cup {"_"}
    /\ \A i \in 1..(Len(d) - 1) : ~(d[i] = "_" /\ d[i + 1] = "_")

\* int(file, 16) returns a value (TRUE) or raises ValueError (FALSE)
IntBase16Mutant(s) == TRUE
IntBase16(s) == DigitRun(RStrip(StripPrefix(StripSign(LStrip(s)))))

\* lines 199-202: the file is handed to shutil.copy2
IsCandidate(file) == Len(file) = UuidLen /\ IntBase16(file)

\* a string of 32 hexadecimal digits
AllHex32(file) == Len(file) = UuidLen /\ \A i \in 1..Len(file) : file[i] \in HexDigits

\* ------------------------------------------------------ archive names

\* strftime(... '%H%M') of minute t of the model's clock, which starts at 09:58:
\* two zero-padded fields (the date fields of the name do not change in the model)
Stamp(t) ==
    LET m == 598 + t
        hh == m \div 60
        mm == m % 60
    IN  <<hh \div 10, hh % 10, mm \div 10, mm % 10>>

\* lines 87-94: arch_name, the name shared by arch_folder and arch_zip
ArchNameMutant(t) == [prefix |-> "items", stamp |-> Stamp(0)]
ArchName(t) == [prefix |-> "items", stamp |-> Stamp(t)]

Times == 0..MaxTime

\* *.zip files of other origin that the destination may hold
ForeignZips ==
    {[prefix |-> "archive", stamp |-> Stamp(0)], [prefix |-> "portal", stamp |-> Stamp(0)]}

ZipNames == {ArchName(t) : t \in Times} \cup ForeignZips

\* order of the prefixes as strings: "archive" < "items" < "portal"
PrefixRank(p) == CASE p = "archive" -> 0 [] p = "items" -> 1 [] p = "portal" -> 2

RECURSIVE SeqLess(_, _)
SeqLess(a, b) ==
    IF a = <<>> THEN b # <<>>
    ELSE IF b = <<>> THEN FALSE
    ELSE IF Head(a) # Head(b) THEN Head(a) < Head(b)
    ELSE SeqLess(Tail(a), Tail(b))

\* comparison of two paths of the destination folder, as list.sort() compares them
PathLess(a, b) ==
    \/ PrefixRank(a.prefix) < PrefixRank(b.prefix)
    \/ a.prefix = b.prefix /\ SeqLess(a.stamp, b.stamp)

\* line 276: filelist.sort()
RECURSIVE SortMutant(_)
SortMutant(S) ==
    IF S = {} THEN <<>>
    ELSE LET m == CHOOSE x \in S : \A y \in S \ {x} : PathLess(y, x)
         IN  <<m>> \o SortMutant(S \ {m})
RECURSIVE Sort(_)
Sort(S) ==
    IF S = {} THEN <<>>
    ELSE LET m == CHOOSE x \in S : \A y \in S \ {x} : PathLess(x, y)
         IN  <<m>> \o Sort(S \ {m})

\* lines 278-283: the slice from the front of the sorted list
DropFilesMutant(fl, limit) ==
    IF Len(fl) > limit THEN SubSeq(fl, 1, Len(fl) - limit - 1) ELSE <<>>
DropFiles(fl, limit) ==
    IF Len(fl) > limit THEN SubSeq(fl, 1, Len(fl) - limit) ELSE <<>>

\* line 247: arcname=itemfile.name
ArcNameMutant(itemfile) == <<"items", "/">> \o itemfile.name
ArcName(itemfile) == itemfile.name

Range(s) == {s[i] : i \in 1..Len(s)}

\* ------------------------------------------------------------- state

NoFile == [exists |-> FALSE, by |-> 0, entries |-> EmptyBag]
\* a ZIP file that was there before the first run
OldZip == [exists |-> TRUE, by |-> 0, entries |-> EmptyBag]

\* file names the Items folder may hold: Item files, and files of other kinds (line 194)
Hex1 == Rep("a", UuidLen)
Hex2 == <<"0", "9", "A", "F">> \o Rep("f", UuidLen - 4)
Other == <<"r", "e", "a", "d", "m", "e", ".", "t", "x", "t">>
SrcNames == {Hex1, Hex2, Other}

VARIABLES
    clock,          \* the current minute
    run,            \* number of runs started
    pc,             \* position of the running script
    retention_limit,\* line 50
    source,         \* names of the files under items_path
    kind,           \* what arch_path holds under the name items_<t>: "absent", "dir", "file"
    staged,         \* the files in the folder items_<t>
    archive,        \* the *.zip files of arch_path
    todo,           \* files os.walk has still to yield
    itemfiles,      \* the listing of arch_folder, line 240
    ziptodo,        \* the part of the listing still to be written
    filelist,       \* line 270
    dropfiles,      \* line 283
    dropidx,        \* number of dropfiles handled
    mkdirFailed,    \* the except branch of line 171 was taken in this run
    failedAt,       \* the step whose exception ended the run
    ioFault,        \* the file system refused a call in this run
    before,         \* archive as it was when the run started
    listed,         \* archive as it was when filelist was taken
    later,          \* the run's minute is later than every earlier run's
    collide,        \* the run's names were taken when it started
    lastEnd         \* how the run before this one ended: "none", "done", "failed", or
                    \* "aborted": failed with its archive written and not yet pruned

vars == <<clock, run, pc, retention_limit, source, kind, staged, archive, todo, itemfiles,
          ziptodo, filelist, dropfiles, dropidx, mkdirFailed, failedAt, ioFault, before,
          listed, later, collide, lastEnd>>

config == <<retention_limit, source>>
history == <<before, later, collide, lastEnd>>

ArchZip == ArchName(clock)

Init ==
    /\ clock = 0
    /\ run = 0
    /\ pc = "none"
    /\ retention_limit \in 1..MaxRetention
    /\ source \in {S \in SUBSET SrcNames : Other \in S}
    /\ kind = [t \in Times |-> "absent"]
    /\ staged = [t \in Times |-> {}]
    /\ \E old \in SUBSET (ForeignZips \cup {ArchName(0)}) :
           archive = [n \in ZipNames |-> IF n \in old THEN OldZip ELSE NoFile]
    /\ todo = {}
    /\ itemfiles = {}
    /\ ziptodo = {}
    /\ filelist = <<>>
    /\ dropfiles = <<>>
    /\ dropidx = 0
    /\ mkdirFailed = FALSE
    /\ failedAt = "none"
    /\ ioFault = FALSE
    /\ before = archive
    /\ listed = archive
    /\ later = FALSE
    /\ collide = FALSE
    /\ lastEnd = "none"

\* an uncaught exception at step ends the run
Crash(step, env) ==
    /\ pc' = "crashed"
    /\ failedAt' = step
    /\ ioFault' = (ioFault \/ env)

\* the scheduler starts the script; lines 87-94 name the folder and the archive
StartRun ==
    /\ pc \in {"none", "done", "crashed"}
    /\ run < MaxRuns
    /\ \E t \in {clock, clock + 1} :
        /\ t <= MaxTime
        /\ clock' = t
        /\ later' = (t > clock)
        /\ collide' = (kind[t] # "absent" \/ archive[ArchName(t)].exists)
    /\ run' = run + 1
    /\ pc' = "mkdir"
    /\ todo' = source
    /\ itemfiles' = {}
    /\ ziptodo' = {}
    /\ filelist' = <<>>
    /\ dropfiles' = <<>>
    /\ dropidx' = 0
    /\ mkdirFailed' = FALSE
    /\ failedAt' = "none"
    /\ ioFault' = FALSE
    /\ before' = archive
    /\ listed' = archive
    /\ lastEnd' = (IF pc # "crashed" THEN pc
                   ELSE IF failedAt \in {"unlink", "rmdir"} THEN "aborted" ELSE "failed")
    /\ UNCHANGED <<config, kind, staged, archive>>

\* lines 163-172: the folder is made unless it is there; a failure is logged only
CreateArchFolder ==
    /\ pc = "mkdir"
    /\ \E ok \in BOOLEAN :
        IF kind[clock] = "dir"
        THEN /\ ok
             /\ UNCHANGED <<kind, staged, mkdirFailed, ioFault>>
        ELSE IF kind[clock] = "absent" /\ ok
        THEN /\ kind' = [kind EXCEPT ![clock] = "dir"]
             /\ staged' = [staged EXCEPT ![clock] = {}]
             /\ UNCHANGED <<mkdirFailed, ioFault>>
        ELSE /\ mkdirFailed' = TRUE
             /\ ioFault' = (ioFault \/ ~ok)
             /\ UNCHANGED <<kind, staged>>
    /\ pc' = "copy"
    /\ UNCHANGED <<clock, run, config, archive, todo, itemfiles, ziptodo, filelist, dropfiles,
                   dropidx, failedAt, history, listed>>

\* lines 191-213: one file of the walk; only ValueError is caught
CopyStep ==
    /\ pc = "copy"
    /\ \E file \in todo, ok \in BOOLEAN :
        /\ todo' = todo \ {file}
        /\ IF ~IsCandidate(file)
           THEN /\ ok
                /\ UNCHANGED <<pc, kind, staged, failedAt, ioFault>>
           ELSE IF ~ok
           THEN /\ Crash("copy", TRUE)
                /\ UNCHANGED <<kind, staged>>
           ELSE IF kind[clock] = "dir"
           THEN /\ staged' = [staged EXCEPT ![clock] = @ \cup {file}]
                /\ UNCHANGED <<pc, kind, failedAt, ioFault>>
           ELSE \* arch_folder is no folder: copy2 writes a file of that name
                /\ kind' = [kind EXCEPT ![clock] = "file"]
                /\ UNCHANGED <<pc, staged, failedAt, ioFault>>
    /\ UNCHANGED <<clock, run, config, archive, itemfiles, ziptodo, filelist, dropfiles,
                   dropidx, mkdirFailed, history, listed>>

\* line 215: the walk is over
CopyDone ==
    /\ pc = "copy"
    /\ todo = {}
    /\ pc' = "zipopen"
    /\ UNCHANGED <<clock, run, config, kind, staged, archive, todo, itemfiles, ziptodo,
                   filelist, dropfiles, dropidx, mkdirFailed, failedAt, ioFault, history,
                   listed>>

\* line 236: ZipFile(arch_zip, mode='w') creates or truncates the file
OpenZip ==
    /\ pc = "zipopen"
    /\ \E ok \in BOOLEAN :
        IF ok
        THEN /\ archive' = [archive EXCEPT ![ArchZip] =
                               [exists |-> TRUE, by |-> run, entries |-> EmptyBag]]
             /\ pc' = "ziplist"
             /\ UNCHANGED <<failedAt, ioFault>>
        ELSE /\ Crash("zipopen", TRUE)
             /\ UNCHANGED archive
    /\ UNCHANGED <<clock, run, config, kind, staged, todo, itemfiles, ziptodo, filelist,
                   dropfiles, dropidx, mkdirFailed, history, listed>>

\* line 240: Path(arch_folder).iterdir(); on an exception the with block closes the file
ListStaging ==
    /\ pc = "ziplist"
    /\ \E ok \in BOOLEAN :
        IF kind[clock] = "dir" /\ ok
        THEN /\ itemfiles' = {[dir |-> clock, name |-> f] : f \in staged[clock]}
             /\ ziptodo' = itemfiles'
             /\ pc' = "zipwrite"
             /\ UNCHANGED <<failedAt, ioFault>>
        ELSE /\ Crash("ziplist", ~ok)
             /\ UNCHANGED <<itemfiles, ziptodo>>
    /\ UNCHANGED <<clock, run, config, kind, staged, archive, todo, filelist, dropfiles,
                   dropidx, mkdirFailed, history, listed>>

\* lines 247-253: one staged file is written to the archive, then deleted
ZipStep ==
    /\ pc = "zipwrite"
    /\ \E itemfile \in ziptodo, wrote \in BOOLEAN, unlinked \in BOOLEAN :
        /\ ziptodo' = ziptodo \ {itemfile}
        /\ IF ~wrote
           THEN /\ unlinked
                /\ Crash("zipwrite", TRUE)
                /\ UNCHANGED <<archive, staged>>
           ELSE /\ archive' = [archive EXCEPT ![ArchZip].entries = @ (+) SetToBag({ArcName(itemfile)})]
                /\ IF unlinked
                   THEN /\ staged' = [staged EXCEPT ![clock] = @ \ {itemfile.name}]
                        /\ UNCHANGED <<pc, failedAt, ioFault>>
                   ELSE /\ Crash("unlink", TRUE)
                        /\ UNCHANGED staged
    /\ UNCHANGED <<clock, run, config, kind, todo, itemfiles, filelist, dropfiles, dropidx,
                   mkdirFailed, history, listed>>

\* lines 255-256: every listed file is written; the archive is closed
ZipClose ==
    /\ pc = "zipwrite"
    /\ ziptodo = {}
    /\ pc' = "rmdir"
    /\ UNCHANGED <<clock, run, config, kind, staged, archive, todo, itemfiles, ziptodo,
                   filelist, dropfiles, dropidx, mkdirFailed, failedAt, ioFault, history,
                   listed>>

\* line 259: arch_folder.rmdir()
RemoveFolder ==
    /\ pc = "rmdir"
    /\ \E ok \in BOOLEAN :
        IF staged[clock] = {} /\ ok
        THEN /\ kind' = [kind EXCEPT ![clock] = "absent"]
             /\ pc' = "glob"
             /\ UNCHANGED <<failedAt, ioFault>>
        ELSE /\ Crash("rmdir", ~ok)
             /\ UNCHANGED kind
    /\ UNCHANGED <<clock, run, config, staged, archive, todo, itemfiles, ziptodo, filelist,
                   dropfiles, dropidx, mkdirFailed, history, listed>>

\* lines 270-283: the *.zip files, sorted, and the front of the list to drop
ListArchives ==
    /\ pc = "glob"
    /\ filelist' = Sort({n \in ZipNames : archive[n].exists})
    /\ dropfiles' = DropFiles(filelist', retention_limit)
    /\ dropidx' = 0
    /\ listed' = archive
    /\ pc' = "prune"
    /\ UNCHANGED <<clock, run, config, kind, staged, archive, todo, itemfiles, ziptodo,
                   mkdirFailed, failedAt, ioFault, history>>

\* lines 287-289: Path.unlink(file) of the next file to drop
PruneStep ==
    /\ pc = "prune"
    /\ dropidx < Len(dropfiles)
    /\ dropidx' = dropidx + 1
    /\ \E ok \in BOOLEAN :
        IF ok
        THEN /\ archive' = [archive EXCEPT ![dropfiles[dropidx + 1]] = NoFile]
             /\ UNCHANGED <<pc, failedAt, ioFault>>
        ELSE /\ Crash("prune", TRUE)
             /\ UNCHANGED archive
    /\ UNCHANGED <<clock, run, config, kind, staged, todo, itemfiles, ziptodo, filelist,
                   dropfiles, mkdirFailed, history, listed>>

\* line 292: backup complete
Complete ==
    /\ pc = "prune"
    /\ dropidx = Len(dropfiles)
    /\ pc' = "done"
    /\ UNCHANGED <<clock, run, config, kind, staged, archive, todo, itemfiles, ziptodo,
                   filelist, dropfiles, dropidx, mkdirFailed, failedAt, ioFault, history,
                   listed>>

Next ==
    \/ StartRun
    \/ CreateArchFolder
    \/ CopyStep
    \/ CopyDone
    \/ OpenZip
    \/ ListStaging
    \/ ZipStep
    \/ ZipClose
    \/ RemoveFolder
    \/ ListArchives
    \/ PruneStep
    \/ Complete

Spec == Init /\ [][Next]_vars

\* a started script runs on, statement after statement, until it ends or an exception ends it
RunStep ==
    \/ CreateArchFolder
    \/ CopyStep
    \/ CopyDone
    \/ OpenZip
    \/ ListStaging
    \/ ZipStep
    \/ ZipClose
    \/ RemoveFolder
    \/ ListArchives
    \/ PruneStep
    \/ Complete

FairSpec == Spec /\ WF_vars(RunStep)

\* ------------------------------------------------- the file selection alone

\* names of 31 to 33 characters: a prefix, a filler, a last character
Prefixes == UNION {[1..n -> Alphabet] : n \in 0..MaxPrefix}
NameSet ==
    {p \o Rep(c, n - Len(p) - 1) \o <<z>> :
        p \in Prefixes, c \in {"a", "F", "g"}, z \in {"0", "f", " ", "_", "g"},
        n \in {UuidLen - 1, UuidLen, UuidLen + 1}}

\* the script about to walk an Items folder that holds one file
InitSelect ==
    /\ clock = 0
    /\ run = 1
    /\ pc = "copy"
    /\ retention_limit = 1
    /\ \E file \in NameSet : source = {file}
    /\ kind = [t \in Times |-> IF t = 0 THEN "dir" ELSE "absent"]
    /\ staged = [t \in Times |-> {}]
    /\ archive = [n \in ZipNames |-> NoFile]
    /\ todo = source
    /\ itemfiles = {}
    /\ ziptodo = {}
    /\ filelist = <<>>
    /\ dropfiles = <<>>
    /\ dropidx = 0
    /\ mkdirFailed = FALSE
    /\ failedAt = "none"
    /\ ioFault = FALSE
    /\ before = archive
    /\ listed = archive
    /\ later = TRUE
    /\ collide = FALSE
    /\ lastEnd = "none"

NextSelect == CopyStep \/ CopyDone

SpecSelect == InitSelect /\ [][NextSelect]_vars

\* ------------------------------------------------------------ claims

Existing == {n \in ZipNames : archive[n].exists}
Min(a, b) == IF a < b THEN a ELSE b

\* C1: the prune step works on the sorted list of the K *.zip files; it drops nothing
\* when K <= R and otherwise the K - R smallest names, in order; the R largest are
\* never touched, and when the step is through exactly they remain.
C1_PruneKeepsNewest ==
    pc \in {"prune", "done"} =>
        LET K == Len(filelist)
            R == retention_limit
            nd == IF K > R THEN K - R ELSE 0
        IN  /\ Range(filelist) = {n \in ZipNames : listed[n].exists}
            /\ \A i \in 1..K, j \in 1..K : i < j => PathLess(filelist[i], filelist[j])
            /\ dropfiles = SubSeq(filelist, 1, nd)
            /\ \A i \in (nd + 1)..K : archive[filelist[i]] = listed[filelist[i]]
            /\ \A i \in 1..nd : archive[filelist[i]].exists = (i > dropidx)
            /\ pc = "done" =>
                /\ Existing = {filelist[i] : i \in (nd + 1)..K}
                /\ Cardinality(Existing) = Min(K, R)
                /\ Cardinality(Range(filelist) \ Existing) = nd

C1_Witness ==
    /\ pc = "done"
    /\ Len(filelist) >= retention_limit + 2
    /\ dropidx = Len(filelist) - retention_limit

\* C2: a file of the source tree is in the staging folder after the walk if and only
\* if its name is 32 characters long and all of them are hexadecimal digits.
C2_SelectsExactlyHex32 ==
    pc = "zipopen" => \A file \in source : file \in staged[clock] <=> AllHex32(file)

\* C3: once the archive step is through a staging folder of N files, the archive holds
\* exactly N entries, the base names of the N files, none of the files is left, and
\* (after rmdir) the staging folder is gone.
C3_ArchiveHoldsStaged ==
    /\ pc \in {"rmdir", "glob"} =>
        LET entries == archive[ArchZip].entries
        IN  /\ archive[ArchZip].exists
            /\ BagCardinality(entries) = Cardinality(itemfiles)
            /\ BagToSet(entries) = {f.name : f \in itemfiles}
            /\ \A e \in BagToSet(entries) : "/" \notin Range(e)
            /\ staged[clock] = {}
    /\ pc = "glob" => kind[clock] = "absent"

C3_Witness ==
    /\ pc = "glob"
    /\ Cardinality(itemfiles) = 2
    /\ BagCardinality(archive[ArchZip].entries) = 2

\* C4: a run that starts in the minute in which the run before it was completed, and so
\* finds an archive of its own name, leaves that archive as it is.
C4_NoSilentOverwrite ==
    (lastEnd = "done" /\ before[ArchZip].exists /\ before[ArchZip].by >= 1) =>
        archive[ArchZip] = before[ArchZip]

\* C5: when the run ends on a failure of the listing or of a write, after the archive
\* was opened, there is no archive of this run and every earlier archive is as before.
C5_NoPartialArchive ==
    (pc = "crashed" /\ failedAt \in {"ziplist", "zipwrite"} /\ ~mkdirFailed) =>
        /\ ~archive[ArchZip].exists
        /\ \A n \in ZipNames \ {ArchZip} : archive[n] = before[n]

\* C6: when the staging folder could not be made, no later step runs: no file of the
\* walk is handled, the archive is not opened, nothing is removed or pruned.
C6_StagingFailureFatal ==
    mkdirFailed =>
        /\ todo = source
        /\ archive = before
        /\ pc \notin {"zipopen", "ziplist", "zipwrite", "rmdir", "glob", "prune", "done"}

\* C7: in a run whose staging folder was made, the failure of one copy never ends the run.
C7_CopyFailureNonFatal == ~(pc = "crashed" /\ failedAt = "copy" /\ ~mkdirFailed)

\* C8: the failure of one deletion never ends the run; the rest of dropfiles is tried.
C8_PruneFailureNonFatal == ~(pc = "crashed" /\ failedAt = "prune")

\* C9: a run of a later minute than every earlier run, aborted ones included, finds its
\* names free; unless the file system refuses a call it does not fail; and when it is
\* through, at most retention_limit archives are left, the newest by file name.
C9_ReRunSafe ==
    later =>
        /\ ~collide
        /\ ~ioFault => (pc # "crashed" /\ ~mkdirFailed)
        /\ pc = "done" =>
            /\ Cardinality(Existing) <= retention_limit
            /\ \A n \in Existing, m \in Range(filelist) \ Existing : PathLess(m, n)

\* the same run under FairSpec: unless the file system refuses a call, it ends in "done"
ReRunCompletes == (later /\ pc = "mkdir") ~> (pc = "done" \/ ioFault)

C9_Witness ==
    /\ pc = "done"
    /\ later
    /\ lastEnd = "aborted"
    /\ Cardinality(Existing) = retention_limit
    /\ dropidx >= 1

TypeOK ==
    /\ pc \in {"none", "mkdir", "copy", "zipopen", "ziplist", "zipwrite", "rmdir", "glob",
               "prune", "done", "crashed"}
    /\ retention_limit \in 1..MaxRetention

====
